---- MODULE Spec2Model ----
(***************************************************************************)
(* Model of the visualization MCP server.  Two front-ends expose the same  *)
(* seven chart tools: src/src/visualization_mcp_server/server.py returns   *)
(* the plot as an Image (mode "image"), src/visualization_server.py saves  *)
(* it to a temp file and shows it (mode "path").                           *)
(*                                                                         *)
(* Spec       the life cycle of tool calls on the event loop: pyplot's     *)
(*            figure stack, the temp directory, the clock, the results.    *)
(* Spec3D     create_3d_plot's grid reconstruction, on enumerated inputs.  *)
(* SpecGraph  create_relationship_graph's graph construction.              *)
(* SpecClass  create_classification_plot's per-category series.            *)
(***************************************************************************)
EXTENDS Integers, Sequences, FiniteSets, TLC

\* ---------------------------------------------------------------- bounds
MaxCalls == 2
MaxClock == 2
MaxPoints == 4
MaxEdges == 2
MaxCats == 3
MaxNodes == 2
MaxEdgeLen == 3

\* ------------------------------------------------------------- constants
\* strftime("%Y%m%d_%H%M%S") has a resolution of one second; the clock of
\* the model counts half seconds.
TicksPerSecond == 2

Calls == 1..MaxCalls

Modes == {"image", "path"}

Tools == {"create_relationship_graph", "create_scatter_plot", "create_3d_plot",
          "create_classification_plot", "create_histogram", "create_line_plot",
          "create_heatmap"}

\* The message of an exception a library raises inside a handler body.
Msgs == {"shape mismatch"}

NoExc == "ok"

VARIABLES mode, pc, tool, running, figs, drewOn, savedFig, files, path,
          artifact, excMsg, result, clock,
          x_data, y_data, z_data, plot_type, render,
          nodes, edges, G,
          categories, series

lifeVars  == <<mode, pc, tool, running, figs, drewOn, savedFig, files, path,
               artifact, excMsg, result, clock>>
plotVars  == <<x_data, y_data, z_data, plot_type, render>>
graphVars == <<nodes, edges, G>>
classVars == <<categories, series>>
vars == <<lifeVars, plotVars, graphVars, classVars>>

\* ------------------------------------------------------- pyplot's state
\* pyplot keeps the open figures in activation order; the current figure
\* is the last one.  A figure is named by the call that created it.
NoFig == 0

CurrentFigure(fs) == IF fs = <<>> THEN NoFig ELSE fs[Len(fs)]

\* plt.figure(): a new figure becomes the current one.
NewFigure(fs, f) == Append(fs, f)

\* plt.close(): closes the current figure, if there is one.
PltClose(fs) == IF fs = <<>> THEN fs ELSE SubSeq(fs, 1, Len(fs) - 1)

\* --------------------------------------------------- per-tool constants
\* The title each handler passes to its finalizer.
PlotTitle(t) ==
    CASE t = "create_relationship_graph"  -> "relationship_graph"
      [] t = "create_scatter_plot"        -> "scatter_plot"
      [] t = "create_3d_plot"             -> "3d_plot"
      [] t = "create_classification_plot" -> "classification_plot"
      [] t = "create_histogram"           -> "histogram"
      [] t = "create_line_plot"           -> "line_plot"
      [] t = "create_heatmap"             -> "heatmap"

\* The chart kind each handler names in its error message.
ChartKind(t) ==
    CASE t = "create_relationship_graph"  -> "relationship graph"
      [] t = "create_scatter_plot"        -> "scatter plot"
      [] t = "create_3d_plot"             -> "3D plot"
      [] t = "create_classification_plot" -> "classification plot"
      [] t = "create_histogram"           -> "histogram"
      [] t = "create_line_plot"           -> "line chart"
      [] t = "create_heatmap"             -> "heatmap"

\* f"Error creating <chart kind>: {str(e)}"
ErrorText(t, m) == "Error creating " \o ChartKind(t) \o ": " \o m

\* tempfile.gettempdir()
TempDir == "/tmp"

\* datetime.now().strftime("%Y%m%d_%H%M%S"): the time truncated to seconds.
Timestamp(now) == ToString(now \div TicksPerSecond)

\* os.path.join(temp_dir, f"{title}_{timestamp}.png")
FilePath(title, now) == TempDir \o "/" \o title \o "_" \o Timestamp(now) \o ".png"

\* f"Plot saved to: {filepath} and displayed"
SavedText(fp) == "Plot saved to: " \o fp \o " and displayed"

\* ------------------------------------------------------------ results
NoResult == [kind |-> "none", text |-> "", data |-> NoFig]

\* raise Exception(text): the call fails with this message.
Raised(text) == [kind |-> "raised", text |-> text, data |-> NoFig]

\* return text: the call succeeds with a string.
Returned(text) == [kind |-> "string", text |-> text, data |-> NoFig]

\* return Image(data=image_bytes, format="png")
ImageOf(f) == [kind |-> "image", text |-> "png", data |-> f]

\* The except clause of a handler: the image front-end closes the current
\* figure and raises, the path front-end returns the message as a string.
ExceptFigs(md, fs) == IF md = "image" THEN PltClose(fs) ELSE fs

\* A front-end whose path variant re-raises like the image variant.
ExceptResult_Raises(md, t, m) == Raised(ErrorText(t, m))

ExceptResult(md, t, m) ==
    IF md = "image" THEN Raised(ErrorText(t, m)) ELSE Returned(ErrorText(t, m))

\* ------------------------------------------------------- the event loop
\* The handlers are coroutines; the loop can switch to another call only
\* where the running one awaits.  No handler body holds an await.
\* A handler that awaits between drawing and finalization.
Yields_AfterDraw(t, p) == p = "drawn"

Yields(t, p) == FALSE

InProgress == {"figured", "drawn", "saved"}

CanSwitch == IF running = 0 THEN TRUE ELSE Yields(tool[running], pc[running])

CanStep(c) == pc[c] \in InProgress /\ (IF running = c THEN TRUE ELSE CanSwitch)

\* The outcomes of a library call: it returns, or raises with a message.
Outcomes == {NoExc} \cup Msgs

\* The handler's exception path, taken at any step; the call is over.
Fail(c, m) ==
    /\ figs' = ExceptFigs(mode, figs)
    /\ result' = [result EXCEPT ![c] = ExceptResult(mode, tool[c], m)]
    /\ excMsg' = [excMsg EXCEPT ![c] = m]
    /\ pc' = [pc EXCEPT ![c] = "done"]
    /\ running' = 0

\* ------------------------------------------------------------- actions
TypeOK ==
    /\ mode \in Modes
    /\ pc \in [Calls -> {"idle", "pending", "figured", "drawn", "saved", "done"}]
    /\ running \in 0..MaxCalls
    /\ clock \in 0..MaxClock

\* The variables of the handlers' data, before any call.
NoRender == [path |-> "none", X |-> <<>>, Y |-> <<>>, Z |-> <<>>,
             points |-> <<>>, raised |-> FALSE]

NoGraph == [nodes |-> {}, edges |-> {}, raised |-> FALSE, built |-> FALSE]

NoSeries == [drawn |-> FALSE, plots |-> <<>>]

Idle3D == x_data = <<>> /\ y_data = <<>> /\ z_data = <<>>
          /\ plot_type = "scatter" /\ render = NoRender

IdleGraph == nodes = <<>> /\ edges = <<>> /\ G = NoGraph

IdleClass == categories = <<>> /\ series = NoSeries

InitPure == Idle3D /\ IdleGraph /\ IdleClass

InitLife ==
    /\ pc = [c \in Calls |-> "idle"]
    /\ tool = [c \in Calls |-> "none"]
    /\ running = 0
    /\ figs = <<>>
    /\ drewOn = [c \in Calls |-> NoFig]
    /\ savedFig = [c \in Calls |-> NoFig]
    /\ files = <<>>
    /\ path = [c \in Calls |-> ""]
    /\ artifact = [c \in Calls |-> "none"]
    /\ excMsg = [c \in Calls |-> NoExc]
    /\ result = [c \in Calls |-> NoResult]
    /\ clock = 0

Init == mode \in Modes /\ InitLife /\ InitPure

\* The dispatcher receives a tool call; calls are numbered in arrival order.
Invoke(c, t) ==
    /\ pc[c] = "idle"
    /\ \A d \in Calls : d < c => pc[d] # "idle"
    /\ pc' = [pc EXCEPT ![c] = "pending"]
    /\ tool' = [tool EXCEPT ![c] = t]
    /\ UNCHANGED <<mode, running, figs, drewOn, savedFig, files, path,
                   artifact, excMsg, result, clock>>
    /\ UNCHANGED <<plotVars, graphVars, classVars>>

\* The loop starts the handler: it runs up to plt.figure() (for the
\* relationship graph, the graph is built first).
Begin(c, o) ==
    /\ pc[c] = "pending"
    /\ CanSwitch
    /\ IF o = NoExc
         THEN /\ figs' = NewFigure(figs, c)
              /\ pc' = [pc EXCEPT ![c] = "figured"]
              /\ running' = c
              /\ UNCHANGED <<result, excMsg>>
         ELSE Fail(c, o)
    /\ UNCHANGED <<mode, tool, drewOn, savedFig, files, path, artifact, clock>>
    /\ UNCHANGED <<plotVars, graphVars, classVars>>

\* The drawing calls of the handler; pyplot draws into the current figure.
Draw(c, o) ==
    /\ CanStep(c) /\ pc[c] = "figured"
    /\ drewOn' = [drewOn EXCEPT ![c] = CurrentFigure(figs)]
    /\ IF o = NoExc
         THEN /\ pc' = [pc EXCEPT ![c] = "drawn"]
              /\ running' = c
              /\ UNCHANGED <<figs, result, excMsg>>
         ELSE Fail(c, o)
    /\ UNCHANGED <<mode, tool, savedFig, files, path, artifact, clock>>
    /\ UNCHANGED <<plotVars, graphVars, classVars>>

\* plt.savefig of the finalizer: the current figure goes to a buffer
\* (image front-end) or to the time-stamped file (path front-end).
SaveFig(c, o) ==
    /\ CanStep(c) /\ pc[c] = "drawn"
    /\ IF o = NoExc
         THEN /\ savedFig' = [savedFig EXCEPT ![c] = CurrentFigure(figs)]
              /\ IF mode = "path"
                   THEN LET fp == FilePath(PlotTitle(tool[c]), clock) IN
                        /\ path' = [path EXCEPT ![c] = fp]
                        /\ files' = [p \in DOMAIN files \cup {fp} |->
                                       IF p = fp THEN CurrentFigure(figs)
                                                 ELSE files[p]]
                        /\ artifact' = [artifact EXCEPT ![c] = "file"]
                   ELSE UNCHANGED <<path, files, artifact>>
              /\ pc' = [pc EXCEPT ![c] = "saved"]
              /\ running' = c
              /\ UNCHANGED <<figs, result, excMsg>>
         ELSE /\ Fail(c, o)
              /\ UNCHANGED <<savedFig, path, files, artifact>>
    /\ UNCHANGED <<mode, tool, drewOn, clock>>
    /\ UNCHANGED <<plotVars, graphVars, classVars>>

\* plt.show() returns at once on a non-interactive backend, leaving the
\* figures open; on an interactive one it blocks until the user has closed
\* the windows, which destroys the figures.
ShowFigs(fs, backend) == IF backend = "interactive" THEN <<>> ELSE fs

\* The rest of the finalizer.  Image front-end: read the buffer, plt.close(),
\* return the Image.  Path front-end: plt.show(), return the path string.
Finish(c, o, backend) ==
    /\ CanStep(c) /\ pc[c] = "saved"
    /\ IF o = NoExc
         THEN /\ IF mode = "image"
                   THEN /\ figs' = PltClose(figs)
                        /\ result' = [result EXCEPT ![c] = ImageOf(savedFig[c])]
                        /\ artifact' = [artifact EXCEPT ![c] = "image"]
                   ELSE /\ figs' = ShowFigs(figs, backend)
                        /\ result' = [result EXCEPT ![c] = Returned(SavedText(path[c]))]
                        /\ UNCHANGED artifact
              /\ pc' = [pc EXCEPT ![c] = "done"]
              /\ running' = 0
              /\ UNCHANGED excMsg
         ELSE /\ Fail(c, o)
              /\ UNCHANGED artifact
    /\ UNCHANGED <<mode, tool, drewOn, savedFig, files, path, clock>>
    /\ UNCHANGED <<plotVars, graphVars, classVars>>

\* Time passes.
Tick ==
    /\ clock < MaxClock
    /\ clock' = clock + 1
    /\ UNCHANGED <<mode, pc, tool, running, figs, drewOn, savedFig, files,
                   path, artifact, excMsg, result>>
    /\ UNCHANGED <<plotVars, graphVars, classVars>>

Next ==
    \/ \E c \in Calls, t \in Tools : Invoke(c, t)
    \/ \E c \in Calls, o \in Outcomes : Begin(c, o)
    \/ \E c \in Calls, o \in Outcomes : Draw(c, o)
    \/ \E c \in Calls, o \in Outcomes : SaveFig(c, o)
    \/ \E c \in Calls, o \in Outcomes, b \in {"interactive", "agg"} : Finish(c, o, b)
    \/ Tick

Spec == Init /\ [][Next]_vars

\* ================================================== create_3d_plot
Range(s) == {s[k] : k \in DOMAIN s}

Min(S) == CHOOSE m \in S : \A n \in S : m <= n

\* sorted(set(data))
RECURSIVE SortedSet(_)
SortedSet(S) == IF S = {} THEN <<>>
                ELSE <<Min(S)>> \o SortedSet(S \ {Min(S)})

Unique(data) == SortedSet(Range(data))

\* len(unique_x) * len(unique_y) == len(z_data)
\* A grid test that only asks for enough cells.
GridCond_AtLeast(x, y, z) == Len(Unique(x)) * Len(Unique(y)) >= Len(z)

GridCond(x, y, z) == Len(Unique(x)) * Len(Unique(y)) = Len(z)

\* np.meshgrid(X, Y): both results have len(Y) rows and len(X) columns;
\* the first repeats X along every row, the second Y along every column.
MeshX(X, Y) == [i \in 1..Len(Y) |-> [j \in 1..Len(X) |-> X[j]]]
MeshY(X, Y) == [i \in 1..Len(Y) |-> [j \in 1..Len(X) |-> Y[i]]]

\* np.array(flat).reshape(r, c): the flat array cut into r consecutive
\* rows of c elements (C order); impossible unless r * c = len(flat).
ReshapeOK(flat, r, c) == r * c = Len(flat)

\* A reshape in column-major (Fortran) order.
Reshape_ColumnMajor(flat, r, c) ==
    [i \in 1..r |-> [j \in 1..c |-> flat[(j - 1) * r + i]]]

Reshape(flat, r, c) == [i \in 1..r |-> SubSeq(flat, (i - 1) * c + 1, i * c)]

\* ax.scatter(x_data, y_data, z_data, ...): the points as given.
Scatter3D(x, y, z) ==
    [path |-> "scatter", X |-> <<>>, Y |-> <<>>, Z |-> <<>>,
     points |-> [k \in 1..Len(x) |-> <<x[k], y[k], z[k]>>], raised |-> FALSE]

\* The surface / wireframe branch once the grid condition holds.
GridPlot(t, x, y, z) ==
    LET ux == Unique(x)
        uy == Unique(y)
    IN IF ReshapeOK(z, Len(uy), Len(ux))
         THEN [path |-> t, X |-> MeshX(ux, uy), Y |-> MeshY(ux, uy),
               Z |-> Reshape(z, Len(uy), Len(ux)),
               points |-> <<>>, raised |-> FALSE]
         ELSE [path |-> t, X |-> MeshX(ux, uy), Y |-> MeshY(ux, uy),
               Z |-> <<>>, points |-> <<>>, raised |-> TRUE]

\* The if / elif chain on plot_type; an unknown plot_type draws nothing.
Render3D(t, x, y, z) ==
    IF t = "scatter" THEN Scatter3D(x, y, z)
    ELSE IF t \in {"surface", "wireframe"}
      THEN IF GridCond(x, y, z) THEN GridPlot(t, x, y, z)
                                ELSE Scatter3D(x, y, z)
      ELSE [path |-> "empty", X |-> <<>>, Y |-> <<>>, Z |-> <<>>,
            points |-> <<>>, raised |-> FALSE]

Coords == {0, 1}
ZVals == {1, 2}

\* The z sequences tried: every sequence over ZVals, and 1, 2, ..., n.
ZSeqs(n) == [1..n -> ZVals] \cup {[k \in 1..n |-> k]}
PlotTypes == {"scatter", "surface", "wireframe", "bar"}

\* The arguments of one call: x, y and z of equal length.
Init3D ==
    /\ \E n \in 0..MaxPoints :
         /\ x_data \in [1..n -> Coords]
         /\ y_data \in [1..n -> Coords]
         /\ z_data \in ZSeqs(n)
    /\ plot_type \in PlotTypes
    /\ render = NoRender
    /\ mode = "image" /\ InitLife /\ IdleGraph /\ IdleClass

Create3DPlot ==
    /\ render.path = "none"
    /\ render' = Render3D(plot_type, x_data, y_data, z_data)
    /\ UNCHANGED <<x_data, y_data, z_data, plot_type>>
    /\ UNCHANGED <<lifeVars, graphVars, classVars>>

Next3D == Create3DPlot

Spec3D == Init3D /\ [][Next3D]_vars

\* ======================================= create_relationship_graph
\* nx.DiGraph(): a set of nodes and a set of directed edges.
\* G.add_nodes_from(nodes)
AddNodesFrom(g, ns) == [g EXCEPT !.nodes = g.nodes \cup Range(ns)]

\* G.add_edge(u, v): the edge, and both endpoints as nodes.
AddEdge(g, u, v) == [g EXCEPT !.nodes = g.nodes \cup {u, v},
                              !.edges = g.edges \cup {<<u, v>>}]

\* if len(edge) >= 2
\* A guard that lets one-element entries through.
EdgeKept_NonEmpty(e) == Len(e) >= 1

EdgeKept(e) == Len(e) >= 2

\* for edge in edges: if len(edge) >= 2: G.add_edge(edge[0], edge[1]);
\* edge[1] of a shorter entry is an IndexError, which ends the loop.
RECURSIVE AddEdges(_, _)
AddEdges(g, es) ==
    IF es = <<>> \/ g.raised THEN g
    ELSE LET e == Head(es) IN
         IF EdgeKept(e)
           THEN IF Len(e) >= 2
                  THEN AddEdges(AddEdge(g, e[1], e[2]), Tail(es))
                  ELSE [g EXCEPT !.raised = TRUE]
           ELSE AddEdges(g, Tail(es))

BuildGraph(ns, es) ==
    [AddEdges(AddNodesFrom(NoGraph, ns), es) EXCEPT !.built = TRUE]

NodeLabels == {"a", "b"}
EdgeLabels == {"a", "c"}

SeqsUpTo(S, n) == UNION {[1..k -> S] : k \in 0..n}

InitGraph ==
    /\ nodes \in SeqsUpTo(NodeLabels, MaxNodes)
    /\ edges \in SeqsUpTo(SeqsUpTo(EdgeLabels, MaxEdgeLen), MaxEdges)
    /\ G = NoGraph
    /\ mode = "image" /\ InitLife /\ Idle3D /\ IdleClass

CreateRelationshipGraph ==
    /\ ~G.built
    /\ G' = BuildGraph(nodes, edges)
    /\ UNCHANGED <<nodes, edges>>
    /\ UNCHANGED <<lifeVars, plotVars, classVars>>

NextGraph == CreateRelationshipGraph

SpecGraph == InitGraph /\ [][NextGraph]_vars

\* ====================================== create_classification_plot
\* [v for v, m in zip(data, mask) if m]
RECURSIVE ZipFilter(_, _)
ZipFilter(data, mask) ==
    IF data = <<>> \/ mask = <<>> THEN <<>>
    ELSE (IF Head(mask) THEN <<Head(data)>> ELSE <<>>)
         \o ZipFilter(Tail(data), Tail(mask))

\* mask = [cat == category for cat in categories]
Mask(cats, category) == [k \in 1..Len(cats) |-> cats[k] = category]

\* One plt.scatter call of the loop over unique_categories.
CategoryScatter(x, y, cats, category) ==
    [label |-> category,
     xs |-> ZipFilter(x, Mask(cats, category)),
     ys |-> ZipFilter(y, Mask(cats, category))]

\* list(set(categories)) lists the distinct values in an unspecified order.
Orders(S) == {o \in [1..Cardinality(S) -> S] : Range(o) = S}

\* A loop over categories itself, without the de-duplication.
ClassificationPlots_NoDedup(x, y, cats, order) ==
    [i \in 1..Len(cats) |-> CategoryScatter(x, y, cats, cats[i])]

ClassificationPlots(x, y, cats, order) ==
    [i \in 1..Len(order) |-> CategoryScatter(x, y, cats, order[i])]

CatLabels == {"a", "b"}
ClassVals == {1, 2, 3}

InitClass ==
    /\ \E n \in 0..MaxCats :
         /\ x_data \in [1..n -> ClassVals]
         /\ y_data \in [1..n -> ClassVals]
         /\ categories \in [1..n -> CatLabels]
    /\ z_data = <<>> /\ plot_type = "scatter" /\ render = NoRender
    /\ series = NoSeries
    /\ mode = "image" /\ InitLife /\ IdleGraph

CreateClassificationPlot(order) ==
    /\ ~series.drawn
    /\ series' = [drawn |-> TRUE,
                  plots |-> ClassificationPlots(x_data, y_data, categories, order)]
    /\ UNCHANGED <<x_data, y_data, z_data, plot_type, render, categories>>
    /\ UNCHANGED <<lifeVars, graphVars>>

NextClass == \E order \in Orders(Range(categories)) : CreateClassificationPlot(order)

SpecClass == InitClass /\ [][NextClass]_vars

\* ============================================================ claims
Done(c) == pc[c] = "done"
Failed(c) == Done(c) /\ excMsg[c] # NoExc
Succeeded(c) == Done(c) /\ excMsg[c] = NoExc

\* C1: between two calls (no handler is in progress) no figure is open, in
\* both front-ends, whether the calls before succeeded or failed.
C1_NoFigureOpenBetweenCalls ==
    (\A c \in Calls : pc[c] \notin InProgress) => figs = <<>>

\* The chart kind the interface documents for each tool's error string.
C2_Kind ==
    [create_relationship_graph  |-> "relationship graph",
     create_scatter_plot        |-> "scatter plot",
     create_3d_plot             |-> "3D plot",
     create_classification_plot |-> "classification plot",
     create_histogram           |-> "histogram",
     create_line_plot           |-> "line chart",
     create_heatmap             |-> "heatmap"]

\* C2: a call that hit an exception with message m ends, in image mode, by
\* raising "Error creating <chart kind>: m" and, in path mode, by returning
\* that string; a call that hit none returns an image (image mode) or
\* "Plot saved to: <path> and displayed" (path mode).
C2_ErrorSignalling ==
    \A c \in Calls : Done(c) =>
        IF excMsg[c] # NoExc
          THEN /\ result[c].text =
                    "Error creating " \o C2_Kind[tool[c]] \o ": " \o excMsg[c]
               /\ result[c].kind = IF mode = "image" THEN "raised" ELSE "string"
          ELSE IF mode = "image"
                 THEN result[c].kind = "image"
                 ELSE /\ result[c].kind = "string"
                      /\ \E p \in DOMAIN files :
                           result[c].text = "Plot saved to: " \o p \o " and displayed"

C2_Witness ==
    \E c, d \in Calls : Failed(c) /\ Succeeded(d)

\* C3: a call that ended in an error has produced no output artifact: no
\* file was written and no image was returned.
C3_FailureIsAllOrNothing ==
    \A c \in Calls : Failed(c) => artifact[c] = "none"

\* C8: handler calls never interleave: at most one call is between the
\* creation of its figure and the end of its finalizer, and a call draws
\* into and saves only the figure it created.
C8_NoInterleaving ==
    /\ Cardinality({c \in Calls : pc[c] \in InProgress}) <= 1
    /\ \A c \in Calls : /\ drewOn[c] \in {NoFig, c}
                        /\ savedFig[c] \in {NoFig, c}
                        /\ result[c].data \in {NoFig, c}

C8_Witness ==
    \E c, d \in Calls : pc[c] = "drawn" /\ drewOn[c] = c /\ pc[d] = "pending"

\* C10: in path mode two distinct successful calls never report the same
\* file path, and the file a call reports still holds that call's plot.
C10_ReportedFileKeepsPlot ==
    mode = "path" =>
        \A c \in Calls : Succeeded(c) =>
            /\ files[path[c]] = savedFig[c]
            /\ \A d \in Calls : (d # c /\ Succeeded(d)) => path[d] # path[c]

\* ----------------------------------------------------- create_3d_plot
Rendered == render.path # "none"
GridTypes == {"surface", "wireframe"}
OnGridPath == Rendered /\ render.path \in GridTypes

NumUnique(data) == Cardinality(Range(data))

\* C4: with plot_type surface or wireframe the grid path is taken if and
\* only if |unique(x)| * |unique(y)| = |z|; otherwise the points are drawn
\* by the scatter path and the handler's drawing raises nothing.
C4_GridIffProduct ==
    (Rendered /\ plot_type \in GridTypes) =>
        /\ (render.path = plot_type)
             <=> (NumUnique(x_data) * NumUnique(y_data) = Len(z_data))
        /\ (NumUnique(x_data) * NumUnique(y_data) # Len(z_data)) =>
             /\ render.path = "scatter"
             /\ ~render.raised
             /\ render.points =
                  [k \in 1..Len(z_data) |-> <<x_data[k], y_data[k], z_data[k]>>]

C4_Witness ==
    /\ Rendered /\ plot_type = "surface"
    /\ x_data = <<0, 0, 1>> /\ y_data = <<0, 1, 0>> /\ z_data = <<1, 2, 3>>
    /\ render.path = "scatter"

\* The number of values of data below v: v's position in sorted order.
Rank(data, v) == Cardinality({w \in Range(data) : w < v})

\* C5: on the grid path Z has |unique_y| rows and |unique_x| columns,
\* Z[i][j] is z_data[i * |unique_x| + j] (indices from 0), and the mesh
\* puts the j-th smallest x on column j and the i-th smallest y on row i.
C5_RowMajorReshape ==
    OnGridPath =>
        LET nx == NumUnique(x_data)
            ny == NumUnique(y_data)
        IN /\ ~render.raised
           /\ Len(render.Z) = ny /\ Len(render.X) = ny /\ Len(render.Y) = ny
           /\ \A i \in 1..ny :
                /\ Len(render.Z[i]) = nx
                /\ Len(render.X[i]) = nx
                /\ Len(render.Y[i]) = nx
                /\ \A j \in 1..nx :
                     /\ render.Z[i][j] = z_data[(i - 1) * nx + j]
                     /\ render.X[i][j] \in Range(x_data)
                     /\ Rank(x_data, render.X[i][j]) = j - 1
                     /\ render.Y[i][j] \in Range(y_data)
                     /\ Rank(y_data, render.Y[i][j]) = i - 1

C5_Witness ==
    /\ OnGridPath
    /\ x_data = <<0, 0, 1, 1>> /\ y_data = <<0, 1, 0, 1>>
    /\ z_data = <<1, 2, 3, 4>>
    /\ render.Z = <<<<1, 2>>, <<3, 4>>>>
    /\ render.X = <<<<0, 1>>, <<0, 1>>>>
    /\ render.Y = <<<<0, 0>>, <<1, 1>>>>

\* The input triples form a complete rectangular grid: every pair of a
\* unique x and a unique y occurs exactly once.
CompleteGrid ==
    /\ Len(x_data) = NumUnique(x_data) * NumUnique(y_data)
    /\ \A k, l \in 1..Len(x_data) :
         (x_data[k] = x_data[l] /\ y_data[k] = y_data[l]) => k = l

\* C9: on the grid path, for a complete rectangular grid in any order, the
\* cell of Z at the mesh coordinates (x_data[k], y_data[k]) holds z_data[k].
C9_PointsKeepValue ==
    (OnGridPath /\ CompleteGrid) =>
        \A k \in 1..Len(z_data) :
            \A i \in 1..Len(render.Z) : \A j \in 1..Len(render.Z[i]) :
                (render.X[i][j] = x_data[k] /\ render.Y[i][j] = y_data[k])
                    => render.Z[i][j] = z_data[k]

\* ------------------------------------------ create_relationship_graph
KeptEdges == {e \in Range(edges) : Len(e) >= 2}

\* C6: the graph's edges are exactly the pairs (e[0], e[1]) of the entries
\* with at least two elements; shorter entries raise nothing, its nodes are
\* the declared nodes and the endpoints, and with no kept entry the graph
\* is built with the declared nodes only.
C6_EdgeSet ==
    G.built =>
        /\ ~G.raised
        /\ G.edges = {<<e[1], e[2]>> : e \in KeptEdges}
        /\ G.nodes = Range(nodes) \cup {e[1] : e \in KeptEdges}
                                  \cup {e[2] : e \in KeptEdges}
        /\ (KeptEdges = {}) => (G.edges = {} /\ G.nodes = Range(nodes))

C6_Witness ==
    /\ G.built
    /\ \E e \in Range(edges) : Len(e) = 1
    /\ \E e \in Range(edges) : Len(e) = 3 /\ e[2] \notin Range(nodes)
                               /\ e[2] \in G.nodes /\ <<e[1], e[2]>> \in G.edges

\* ----------------------------------------- create_classification_plot
IndicesOf(category) == {k \in 1..Len(categories) : categories[k] = category}

\* C7: one series is drawn per distinct category, labelled with it, holding
\* exactly the points of that category in input order; every input point
\* is in exactly one series.
C7_SeriesPartition ==
    series.drawn =>
        LET plots == series.plots IN
        /\ Len(plots) = Cardinality(Range(categories))
        /\ {plots[i].label : i \in DOMAIN plots} = Range(categories)
        /\ \A i \in DOMAIN plots :
             LET K == IndicesOf(plots[i].label) IN
             /\ Len(plots[i].xs) = Cardinality(K)
             /\ Len(plots[i].ys) = Cardinality(K)
             /\ \A k \in K :
                  LET r == Cardinality({l \in K : l <= k}) IN
                  /\ plots[i].xs[r] = x_data[k]
                  /\ plots[i].ys[r] = y_data[k]
        /\ \A k \in 1..Len(categories) :
             Cardinality({i \in DOMAIN plots : plots[i].label = categories[k]}) = 1

C7_Witness ==
    /\ series.drawn
    /\ categories = <<"a", "b", "a">>
    /\ x_data = <<1, 2, 3>> /\ y_data = <<1, 2, 3>>
    /\ \E i, j \in DOMAIN series.plots :
         /\ series.plots[i] = [label |-> "a", xs |-> <<1, 3>>, ys |-> <<1, 3>>]
         /\ series.plots[j] = [label |-> "b", xs |-> <<2>>, ys |-> <<2>>]

====
